---- MODULE Spec2Model ----
(***************************************************************************)
(* FreelanceHub backend: the order lifecycle (routes/orders.js), the       *)
(* payment reconciliation (routes/payments.js), the notification           *)
(* dispatcher (utils/notifications.js) and the Order / Notification        *)
(* schemas, as a state machine over the document store.                    *)
(*                                                                         *)
(* Every request handler is split at its awaits: the first action of a     *)
(* handler is the arrival of the request together with its first store     *)
(* read and the synchronous code up to the next await; every later store   *)
(* write is a step of its own (IncUser, IncGig, SaveOrder,                 *)
(* createNotification).  Spec runs the requests one at a time, at a fixed  *)
(* gig price; SpecFees adds changes of the gig's price; SpecPay lets the   *)
(* payment handlers of two requests interleave at their awaits.  The model *)
(* follows one order (OrderIds); money is in cents, time in days.          *)
(*                                                                         *)
(* The conversations and messages (routes/messages.js), the reading of     *)
(* notifications (utils/notifications.js, socket/socketHandler.js) and the *)
(* reviews with the ratings they feed (routes/reviews.js, updateRating)    *)
(* have specifications of their own: SpecMsg, SpecNotify, and, from a      *)
(* store that holds two completed orders, SpecRating (one request at a     *)
(* time) and SpecReview (two create-review requests at a time).            *)
(*                                                                         *)
(* Requests that interleave at their awaits on the same documents are     *)
(* followed by SpecRace (accept, completion and revision requests on one   *)
(* delivered order), SpecChat (sends and reads on one conversation) and    *)
(* SpecPair (get-or-create of a conversation); SpecPresence follows the    *)
(* connect and disconnect handlers of the socket server, whose store       *)
(* updates are sent without being awaited.                                 *)
(***************************************************************************)
EXTENDS Integers, Sequences, FiniteSets, Bags, TLC

VARIABLES
    orders,     \* the Order collection: a sequence of documents, _id = index
    users,      \* the User collection: totalEarnings, completedOrders
    gig,        \* the one Gig document: pricing, totalOrders
    notifs,     \* the Notification collection: a bag of [recipient, type, order]
    sessions,   \* the payment provider's checkout sessions, id = index
    req,        \* the requests in flight, one record per slot
    now,        \* the clock
    reviews,    \* the Review collection: a bag of [order, gig, reviewer, reviewee, rating]
    ratings,    \* rating and totalReviews of the Gig and of the User documents
    conversations,  \* the Conversation collection: a sequence of documents, _id = index
    messages,   \* the Message collection: a sequence of documents, _id = index
    io,         \* the socket server handle of socketHandler.js: set or not
    sockets,    \* the number of connected sockets of each user
    isOnline,   \* the isOnline field of the User documents
    updates     \* the presence updates sent to the store and not yet applied

reviewVars == <<reviews, ratings>>
chatVars == <<conversations, messages, io>>
presenceVars == <<sockets, isOnline, updates>>
\* what the order and payment handlers never touch
social == <<reviewVars, chatVars, presenceVars>>

vars == <<orders, users, gig, notifs, sessions, req, now, reviews, ratings,
          conversations, messages, io, sockets, isOnline, updates>>

--------------------------------------------------------------------------
(* Bounds of the model *)

MaxNotifs == 4
MaxTime == 1
MaxConversations == 2
MaxMessages == 2
MaxSockets == 2
MaxUpdates == 2

(* Program constants *)

AutoCompleteDays == 3
MinServiceFee == 200
MinCustomPrice == 500

--------------------------------------------------------------------------
(* Domains *)

Slots == {1, 2}
Users == {"buyer", "seller", "other"}
Statuses == {"pending", "requirements_pending", "in_progress", "delivered",
             "revision_requested", "completed", "cancelled", "disputed"}
Messages == {"m1", "m2"}
Prices == {500, 5010, 15000}
NoDate == -1
NoGig == "null"
TheGig == "gig"
OrderIds == {1}
\* the provider's sessions: one per order; a payment intent of no session
MaxSessions == Cardinality(OrderIds)
IntentIds == 1..(MaxSessions + 1)
SessionIds == 1..MaxSessions

\* what carries a rating: the users and the gig
Targets == Users \cup {TheGig}
Max(a, b) == IF a >= b THEN a ELSE b
Range(f) == {f[i] : i \in DOMAIN f}
Last(s) == s[Len(s)]

\* Math.round(x / 100) for a non-negative integer x: halves round up
RoundDiv100(x) == (x + 50) \div 100

--------------------------------------------------------------------------
(* Schemas *)

\* notificationSchema.type enum
NotificationTypes == {"new_order", "order_delivered", "order_completed",
                      "order_cancelled", "revision_requested", "new_message",
                      "review_received", "payment_received", "gig_approved",
                      "gig_rejected", "custom_offer", "system"}

\* orderSchema.package enum
PackageEnum == {"basic", "standard", "premium"}

\* orderSchema: gig is required, package is one of the enum (the other
\* required paths are always given by the two creating handlers)
orderValid(d) == d.gig # NoGig /\ d.package \in PackageEnum

NoCancellation == [reason |-> "none", requestedBy |-> "none", approved |-> FALSE]

\* paymentIntentId values: the provider's payment intent of session k, or the
\* session id itself (the fallback of the creating handlers)
PI(k) == [kind |-> "pi", k |-> k]
CS(k) == [kind |-> "cs", k |-> k]

\* a service fee without its minimum
serviceFeeNoMinimum(subtotal) == RoundDiv100(subtotal * 5)

\* Fee calculation of the two creating handlers, in cents
serviceFeeOf(subtotal) == Max(MinServiceFee, RoundDiv100(subtotal * 5))
netAmountOf(subtotal) == subtotal - RoundDiv100(subtotal * 20)
totalAmountOf(subtotal) == subtotal + serviceFeeOf(subtotal)

\* new Order({...}) with the schema defaults
NewOrder(id, buyer, seller, g, package, details, k, pid) ==
    [_id |-> id, buyer |-> buyer, seller |-> seller, gig |-> g,
     package |-> package, packageDetails |-> details,
     totalAmount |-> totalAmountOf(details.price),
     serviceFee |-> serviceFeeOf(details.price),
     netAmount |-> netAmountOf(details.price),
     status |-> "pending", paymentStatus |-> "pending",
     paymentIntentId |-> pid, stripeSessionId |-> k,
     deliveryDate |-> NoDate, completedAt |-> NoDate,
     deliveries |-> <<>>, revisions |-> <<>>,
     cancellation |-> NoCancellation,
     isReviewed |-> [buyer |-> FALSE, seller |-> FALSE],
     autoCompleteAt |-> NoDate]

NoDoc == [status |-> "none"]

\* a JavaScript number that is a quotient of integers, in lowest terms
RECURSIVE GCD(_, _)
GCD(a, b) == IF b = 0 THEN a ELSE GCD(b, a % b)
Quotient(a, b) == [num |-> a \div GCD(a, b), den |-> b \div GCD(a, b)]

\* rating and totalReviews as the Gig and User schemas default them
NoRating == [rating |-> Quotient(0, 1), totalReviews |-> 0]

\* orderSchema.methods.scheduleAutoComplete: sets autoCompleteAt once and
\* starts a save of its own, which the caller does not await
scheduleAutoComplete(d) ==
    IF d.status = "delivered" /\ d.autoCompleteAt = NoDate
    THEN [doc |-> [d EXCEPT !.autoCompleteAt = now + AutoCompleteDays], saving |-> TRUE]
    ELSE [doc |-> d, saving |-> FALSE]

\* the paths of a loaded document that an assignment has changed
Modified(old, new) == {f \in DOMAIN old : old[f] # new[f]}

\* a save that writes a modified array whole, so that the last save wins
SavedDocWholeArray(stored, d, mod) ==
    [f \in DOMAIN stored |-> IF f \notin mod THEN stored[f] ELSE d[f]]

\* document.save() of a loaded document: $set of the modified paths, $push of
\* the element pushed onto a modified array, everything else as stored
SavedDoc(stored, d, mod) ==
    [f \in DOMAIN stored |->
        IF f \notin mod THEN stored[f]
        ELSE IF f \in {"deliveries", "revisions"} THEN Append(stored[f], Last(d[f]))
        ELSE d[f]]

--------------------------------------------------------------------------
(* Requests *)

\* the store as a request found it
Snapshot == [orders |-> orders, users |-> users, totalOrders |-> gig.totalOrders,
             notifs |-> notifs, sessions |-> sessions, now |-> now,
             reviews |-> reviews, ratings |-> ratings,
             conversations |-> conversations, messages |-> messages]
NoSnap == [orders |-> <<>>, users |-> <<>>, totalOrders |-> 0,
           notifs |-> EmptyBag, sessions |-> <<>>, now |-> 0,
           reviews |-> EmptyBag, ratings |-> <<>>,
           conversations |-> <<>>, messages |-> <<>>]

IdleReq == [pc |-> "idle", op |-> "none", actor |-> "none", o |-> 0, arg |-> "none",
            doc |-> NoDoc, mod |-> {}, ntf |-> {}, resp |-> "none", snap |-> NoSnap]

NewReq(op, actor, o, arg) ==
    [IdleReq EXCEPT !.op = op, !.actor = actor, !.o = o, !.arg = arg, !.snap = Snapshot]

\* res.status(...).json(...): the handler is over
Reply(s, r, resp) ==
    req' = [req EXCEPT ![s] = [r EXCEPT !.pc = "done", !.resp = resp,
                                        !.doc = NoDoc, !.mod = {}, !.ntf = {}]]

\* the handler goes on to its next await with the document it has loaded
Continue(s, r, pc, d, mod, ntf) ==
    req' = [req EXCEPT ![s] = [r EXCEPT !.pc = pc, !.doc = d, !.mod = mod, !.ntf = ntf]]

\* new Notification({recipient, type, data}), with the schema's defaults
Ntf(recipient, type, id) ==
    [recipient |-> recipient, type |-> type, order |-> id,
     isRead |-> FALSE, readAt |-> NoDate]

InFlight(s) == req[s].pc \notin {"idle", "done"}
Quiet == \A s \in Slots : ~InFlight(s)
AllIdle == \A s \in Slots : req[s].pc = "idle"
CanStart(s) == req[s].pc = "idle"
\* the Notification collection is kept finite: a request that is going to
\* write starts only while there is room
Room == BagCardinality(notifs) < MaxNotifs

\* nobody is connected: isOnline defaults to false
InitPresence ==
    /\ sockets = [u \in Users |-> 0]
    /\ isOnline = [u \in Users |-> FALSE]
    /\ updates = EmptyBag

Init ==
    /\ orders = <<>>
    /\ users = [u \in Users |-> [totalEarnings |-> 0, completedOrders |-> 0]]
    /\ gig = [freelancer |-> "seller", totalOrders |-> 0,
              pricing |-> [basic |-> [price |-> 15000, deliveryTime |-> 1, revisions |-> 1]]]
    /\ notifs = EmptyBag
    /\ sessions = <<>>
    /\ req = [s \in Slots |-> IdleReq]
    /\ now = 0
    /\ reviews = EmptyBag
    /\ ratings = [t \in Targets |-> NoRating]
    /\ conversations = <<>>
    /\ messages = <<>>
    /\ io = FALSE
    /\ InitPresence

--------------------------------------------------------------------------
(* routes/orders.js *)

\* a table that also lets the seller complete an order in progress
validTransitionsSkipDelivery(status) ==
    CASE status = "pending" -> {"requirements_pending", "in_progress", "cancelled"}
      [] status = "requirements_pending" -> {"in_progress", "cancelled"}
      [] status = "in_progress" -> {"delivered", "cancelled", "completed"}
      [] status = "delivered" -> {"completed"}
      [] status = "revision_requested" -> {"in_progress", "delivered"}
      [] OTHER -> {}

\* validTransitions[order.status] of PATCH /:id/status
validTransitions(status) ==
    CASE status = "pending" -> {"requirements_pending", "in_progress", "cancelled"}
      [] status = "requirements_pending" -> {"in_progress", "cancelled"}
      [] status = "in_progress" -> {"delivered", "cancelled"}
      [] status = "delivered" -> {"completed"}
      [] status = "revision_requested" -> {"in_progress", "delivered"}
      [] OTHER -> {}

\* the document PATCH /:id/status has in hand before its first write
StatusDoc(d, status) ==
    LET d0 == [d EXCEPT !.status = status] IN
    IF status = "delivered"
    THEN scheduleAutoComplete([d0 EXCEPT !.deliveryDate = now])
    ELSE IF status = "completed"
    THEN [doc |-> [d0 EXCEPT !.completedAt = now], saving |-> FALSE]
    ELSE [doc |-> d0, saving |-> FALSE]

\* PATCH /:id/status up to its first write
UpdateStatus(s, actor, o, status) ==
    /\ CanStart(s)
    /\ LET r == NewReq("status", actor, o, status) IN
       IF o \notin DOMAIN orders THEN Reply(s, r, "NotFound")
       ELSE IF orders[o].seller # actor THEN Reply(s, r, "Forbidden")
       ELSE IF status \notin validTransitions(orders[o].status)
            THEN Reply(s, r, "InvalidTransition")
       ELSE LET sd == StatusDoc(orders[o], status)
                mod == Modified(orders[o], sd.doc) \cup
                       (IF status = "delivered" THEN {"deliveryDate"} ELSE {}) \cup
                       (IF status = "completed" THEN {"completedAt"} ELSE {})
                ntf == {Ntf(orders[o].buyer, "order_" \o status, o)}
            IN Room /\ Continue(s, r, IF status = "completed" THEN "incUser"
                              ELSE IF sd.saving THEN "parallelSave" ELSE "save",
                        sd.doc, mod, ntf)
    /\ UNCHANGED <<orders, users, gig, notifs, sessions, now, social>>

\* a push that puts the new record in front of the delivery history
deliveriesUnshift(deliveries, message) == <<[message |-> message]>> \o deliveries

\* order.deliveries.push({message, files, deliveredAt})
deliveriesPush(deliveries, message) == Append(deliveries, [message |-> message])

\* POST /:id/deliver up to its first write
Deliver(s, actor, o, message) ==
    /\ CanStart(s)
    /\ LET r == NewReq("deliver", actor, o, message) IN
       IF o \notin DOMAIN orders THEN Reply(s, r, "NotFound")
       ELSE IF orders[o].seller # actor THEN Reply(s, r, "Forbidden")
       ELSE IF orders[o].status # "in_progress" THEN Reply(s, r, "InvalidTransition")
       ELSE LET d0 == [orders[o] EXCEPT
                          !.deliveries = deliveriesPush(@, message),
                          !.status = "delivered",
                          !.deliveryDate = now]
                sd == scheduleAutoComplete(d0)
            IN Room /\ Continue(s, r, IF sd.saving THEN "parallelSave" ELSE "save", sd.doc,
                        Modified(orders[o], sd.doc) \cup {"deliveryDate"},
                        {Ntf(orders[o].buyer, "order_delivered", o)})
    /\ UNCHANGED <<orders, users, gig, notifs, sessions, now, social>>

\* a revision check that is off by one
revisionsAvailableOffByOne(d) == Len(d.revisions) <= d.packageDetails.revisions

\* usedRevisions < availableRevisions of POST /:id/revision
revisionsAvailable(d) == Len(d.revisions) < d.packageDetails.revisions

\* POST /:id/revision up to its first write
RequestRevision(s, actor, o, message) ==
    /\ CanStart(s)
    /\ LET r == NewReq("revision", actor, o, message) IN
       IF o \notin DOMAIN orders THEN Reply(s, r, "NotFound")
       ELSE IF orders[o].buyer # actor THEN Reply(s, r, "Forbidden")
       ELSE IF orders[o].status # "delivered" THEN Reply(s, r, "InvalidTransition")
       ELSE IF ~revisionsAvailable(orders[o]) THEN Reply(s, r, "LimitExceeded")
       ELSE LET d == [orders[o] EXCEPT
                         !.revisions = Append(@, [message |-> message]),
                         !.status = "revision_requested"]
            IN Room /\ Continue(s, r, "save", d, Modified(orders[o], d),
                        {Ntf(orders[o].seller, "revision_requested", o)})
    /\ UNCHANGED <<orders, users, gig, notifs, sessions, now, social>>

\* POST /:id/accept up to its first write
Accept(s, actor, o) ==
    /\ CanStart(s)
    /\ LET r == NewReq("accept", actor, o, "none") IN
       IF o \notin DOMAIN orders THEN Reply(s, r, "NotFound")
       ELSE IF orders[o].buyer # actor THEN Reply(s, r, "Forbidden")
       ELSE IF orders[o].status # "delivered" THEN Reply(s, r, "InvalidTransition")
       ELSE LET d == [orders[o] EXCEPT !.status = "completed", !.completedAt = now]
            IN Room /\ Continue(s, r, "incUser", d, Modified(orders[o], d) \cup {"completedAt"},
                        {Ntf(orders[o].seller, "order_completed", o)})
    /\ UNCHANGED <<orders, users, gig, notifs, sessions, now, social>>

\* an authorization that lets every signed-in user cancel
isAuthorizedAnyUser(d, actor) == TRUE

\* isAuthorized of POST /:id/cancel
isAuthorized(d, actor) == d.buyer = actor \/ d.seller = actor

\* a check that keeps only completed orders from being cancelled
cannotCancelCompletedOnly(status) == status = "completed"

\* ['completed', 'cancelled', 'disputed'].includes(order.status)
cannotCancel(status) == status \in {"completed", "cancelled", "disputed"}

\* POST /:id/cancel up to its first write
Cancel(s, actor, o, reason) ==
    /\ CanStart(s)
    /\ LET r == NewReq("cancel", actor, o, reason) IN
       IF o \notin DOMAIN orders THEN Reply(s, r, "NotFound")
       ELSE IF ~isAuthorized(orders[o], actor)
            THEN Reply(s, r, "Forbidden")
       ELSE IF cannotCancel(orders[o].status)
            THEN Reply(s, r, "InvalidTransition")
       ELSE LET d == [orders[o] EXCEPT
                         !.status = "cancelled",
                         !.cancellation = [reason |-> reason, requestedBy |-> actor,
                                           approved |-> TRUE]]
                recipient == IF orders[o].buyer = actor THEN orders[o].seller
                             ELSE orders[o].buyer
            IN Room /\ Continue(s, r, "save", d, Modified(orders[o], d) \cup {"cancellation"},
                        {Ntf(recipient, "order_cancelled", o)})
    /\ UNCHANGED <<orders, users, gig, notifs, sessions, now, social>>

\* a credit of what the buyer paid instead of the seller's net amount
IncUserGross(s) ==
    /\ req[s].pc = "incUser"
    /\ users' = [users EXCEPT ![req[s].doc.seller] =
                    [totalEarnings |-> @.totalEarnings + req[s].doc.totalAmount,
                     completedOrders |-> @.completedOrders + 1]]
    /\ req' = [req EXCEPT ![s].pc = "incGig"]
    /\ UNCHANGED <<orders, gig, notifs, sessions, now, social>>

\* User.findByIdAndUpdate(order.seller, {$inc: {totalEarnings, completedOrders}})
IncUser(s) ==
    /\ req[s].pc = "incUser"
    /\ users' = [users EXCEPT ![req[s].doc.seller] =
                    [totalEarnings |-> @.totalEarnings + req[s].doc.netAmount,
                     completedOrders |-> @.completedOrders + 1]]
    /\ req' = [req EXCEPT ![s].pc = "incGig"]
    /\ UNCHANGED <<orders, gig, notifs, sessions, now, social>>

\* Gig.findByIdAndUpdate(order.gig, {$inc: {totalOrders: 1}})
IncGig(s) ==
    /\ req[s].pc = "incGig"
    /\ gig' = IF req[s].doc.gig = TheGig
              THEN [gig EXCEPT !.totalOrders = @ + 1] ELSE gig
    /\ req' = [req EXCEPT ![s].pc = "save"]
    /\ UNCHANGED <<orders, users, notifs, sessions, now, social>>

\* await order.save()
SaveOrder(s) ==
    /\ req[s].pc = "save"
    /\ LET id == req[s].doc._id IN
       orders' = [orders EXCEPT ![id] = SavedDoc(orders[id], req[s].doc, req[s].mod)]
    /\ req' = [req EXCEPT ![s].pc = "notify"]
    /\ UNCHANGED <<users, gig, notifs, sessions, now, social>>

\* await order.save() while the save started by scheduleAutoComplete is still
\* running: the started save writes the document, the awaited one is rejected
\* (a document cannot be saved twice in parallel) and the handler answers 500
ParallelSave(s) ==
    /\ req[s].pc = "parallelSave"
    /\ LET id == req[s].doc._id IN
       orders' = [orders EXCEPT ![id] = SavedDoc(orders[id], req[s].doc, req[s].mod)]
    /\ Reply(s, req[s], "ServerError")
    /\ UNCHANGED <<users, gig, notifs, sessions, now, social>>

\* createNotification: new Notification(...).save() validates type against the
\* schema's enum and throws; emitToUser never throws
createNotification(s) ==
    /\ req[s].pc = "notify"
    /\ IF \E n \in req[s].ntf : n.type \notin NotificationTypes
       THEN Reply(s, req[s], "ServerError") /\ UNCHANGED notifs
       ELSE Reply(s, req[s], "OK") /\ notifs' = notifs (+) SetToBag(req[s].ntf)
    /\ UNCHANGED <<orders, users, gig, sessions, now, social>>

\* the response has been sent
Respond(s) ==
    /\ req[s].pc = "done"
    /\ req' = [req EXCEPT ![s] = IdleReq]
    /\ UNCHANGED <<orders, users, gig, notifs, sessions, now, social>>

--------------------------------------------------------------------------
(* routes/payments.js *)

\* Order.findOne({stripeSessionId}), and below Order.findOne({paymentIntentId})
FindBySession(k) == {o \in DOMAIN orders : orders[o].stripeSessionId = k}
\* a lookup that ignores the payment reference
FindByIntentAnyOrder(pid) == DOMAIN orders

FindByIntent(pid) == {o \in DOMAIN orders : orders[o].paymentIntentId = pid}

\* POST /create-checkout-session: the whole handler (one store write, at its end).
\* withIntent: whether the provider's new session already names a payment intent.
CreateCheckoutSession(s, actor, packageType, withIntent) ==
    /\ CanStart(s)
    /\ LET r == NewReq("checkout", actor, 0, packageType) IN
       IF gig.freelancer = actor
       THEN Reply(s, r, "OwnGig") /\ UNCHANGED <<orders, sessions>>
       ELSE IF packageType \notin DOMAIN gig.pricing
       THEN Reply(s, r, "InvalidPackage") /\ UNCHANGED <<orders, sessions>>
       ELSE /\ Len(orders) < Cardinality(OrderIds)
            /\ Len(sessions) < MaxSessions
            /\ LET k == Len(sessions) + 1
                   d == NewOrder(Len(orders) + 1, actor, gig.freelancer, TheGig,
                                 packageType, gig.pricing[packageType], k,
                                 IF withIntent THEN PI(k) ELSE CS(k))
               IN /\ sessions' = Append(sessions, [paid |-> FALSE, sent |-> FALSE])
                  /\ IF orderValid(d)
                     THEN orders' = Append(orders, d) /\ Reply(s, r, "OK")
                     ELSE UNCHANGED orders /\ Reply(s, r, "ServerError")
    /\ UNCHANGED <<users, gig, notifs, now, social>>

\* POST /create-custom-offer-payment: the whole handler
CreateCustomOfferPayment(s, actor, receiverId, price, revisions, withIntent) ==
    /\ CanStart(s)
    /\ LET r == NewReq("customOffer", actor, 0, price) IN
       IF price < MinCustomPrice
       THEN Reply(s, r, "LimitExceeded") /\ UNCHANGED <<orders, sessions>>
       ELSE /\ Len(sessions) < MaxSessions
            /\ LET k == Len(sessions) + 1
                   d == NewOrder(Len(orders) + 1, receiverId, actor, NoGig, "custom",
                                 [price |-> price, deliveryTime |-> 1,
                                  revisions |-> revisions], k,
                                 IF withIntent THEN PI(k) ELSE CS(k))
               IN /\ sessions' = Append(sessions, [paid |-> FALSE, sent |-> FALSE])
                  /\ IF orderValid(d) /\ Len(orders) < Cardinality(OrderIds)
                     THEN orders' = Append(orders, d) /\ Reply(s, r, "OK")
                     ELSE UNCHANGED orders /\ Reply(s, r, "ServerError")
    /\ UNCHANGED <<users, gig, notifs, now, social>>

\* the two notifications of a confirmed payment
PaidNotifications(d) ==
    {Ntf(d.seller, "new_order", d._id), Ntf(d.buyer, "payment_received", d._id)}

\* the assignments of GET /success/:sessionId
SuccessDoc(d, k) ==
    [d EXCEPT !.paymentStatus = "paid",
              !.status = "requirements_pending",
              !.paymentIntentId = PI(k),
              !.deliveryDate = now + d.packageDetails.deliveryTime]

\* a webhook without the guard
ShouldApplyCheckoutAlways(d) == TRUE

\* the guard of the checkout.session.completed case
ShouldApplyCheckout(d) == d.paymentStatus # "paid"

\* the assignments of the checkout.session.completed case
CheckoutCompletedDoc(d, k) ==
    [d EXCEPT !.paymentStatus = "paid",
              !.status = "requirements_pending",
              !.paymentIntentId = PI(k)]

\* GET /success/:sessionId up to its first write
PaymentSuccess(s, actor, k) ==
    /\ CanStart(s)
    /\ LET r == NewReq("success", actor, k, "none") IN
       IF k \notin DOMAIN sessions THEN Reply(s, r, "ServerError")
       ELSE IF ~sessions[k].paid THEN Reply(s, r, "PaymentNotCompleted")
       ELSE IF FindBySession(k) = {} THEN Reply(s, r, "NotFound")
       ELSE LET o == CHOOSE x \in FindBySession(k) : TRUE
                d == SuccessDoc(orders[o], k)
            IN Room /\ Continue(s, r, "save", d, Modified(orders[o], d) \cup {"deliveryDate"},
                        PaidNotifications(d))
    /\ UNCHANGED <<orders, users, gig, notifs, sessions, now, social>>

\* POST /webhook, case checkout.session.completed, up to its first write; the
\* provider sends (and may send again) the event of a session that was paid
WebhookCheckoutCompleted(s, k) ==
    /\ CanStart(s)
    /\ k \in DOMAIN sessions
    /\ sessions[k].paid
    /\ sessions' = [sessions EXCEPT ![k].sent = TRUE]
    /\ LET r == NewReq("checkout_completed", "stripe", k, "none") IN
       IF FindBySession(k) = {} THEN Reply(s, r, "OK")
       ELSE LET o == CHOOSE x \in FindBySession(k) : TRUE
                d == CheckoutCompletedDoc(orders[o], k)
            IN IF ShouldApplyCheckout(orders[o])
               THEN Room /\ Continue(s, r, "save", d, Modified(orders[o], d),
                                      PaidNotifications(d))
               ELSE Reply(s, r, "OK")
    /\ UNCHANGED <<orders, users, gig, notifs, now, social>>

\* POST /webhook, case payment_intent.payment_failed, up to its first write
WebhookPaymentFailed(s, k) ==
    /\ CanStart(s)
    /\ LET r == NewReq("payment_failed", "stripe", k, "none") IN
       IF FindByIntent(PI(k)) = {} THEN Reply(s, r, "OK")
       ELSE LET o == CHOOSE x \in FindByIntent(PI(k)) : TRUE
                d == [orders[o] EXCEPT !.paymentStatus = "failed", !.status = "cancelled"]
            IN Room /\ Continue(s, r, "save", d, Modified(orders[o], d),
                        {Ntf(orders[o].buyer, "system", o)})
    /\ UNCHANGED <<orders, users, gig, notifs, sessions, now, social>>

--------------------------------------------------------------------------
(* models/Conversation.js, models/Message.js, routes/messages.js *)

\* new Conversation({participants}), with the schema's defaults; unreadCount
\* is read as get(user) || 0
NewConversation(participants) ==
    [participants |-> participants, lastMessage |-> 0, lastActivity |-> now,
     unreadCount |-> [u \in Users |-> 0]]

\* a hook that lets every conversation through
conversationPreSaveNone(c) == TRUE

\* conversationSchema.pre('save'): exactly two participants
conversationPreSave(c) == Len(c.participants) = 2

\* new Message({conversation, sender, receiver, content}), with the defaults
NewMessage(c, sender, receiver, content) ==
    [conversation |-> c, sender |-> sender, receiver |-> receiver,
     content |-> content, isRead |-> FALSE, readAt |-> NoDate]

\* messageSchema: content is required
messageValid(m) == m.content # ""

\* conversation.participants.includes(userId)
isParticipant(c, user) == c \in DOMAIN conversations /\ user \in Range(conversations[c].participants)

\* a receiver that is always the conversation's first participant
receiverOfFirst(c, sender) == conversations[c].participants[1]

\* conversation.participants.find(p => p.toString() !== senderId.toString())
receiverOf(c, sender) ==
    LET ps == conversations[c].participants
        is == {i \in DOMAIN ps : ps[i] # sender}
    IN ps[CHOOSE i \in is : \A j \in is : i <= j]

\* Conversation.findOne({participants: {$all: [userId, participantId]}})
FindConversation(a, b) ==
    {c \in DOMAIN conversations : {a, b} \subseteq Range(conversations[c].participants)}

\* setupSocket(io) of socketHandler.js
setupSocket ==
    /\ ~io
    /\ io' = TRUE
    /\ UNCHANGED <<orders, users, gig, notifs, sessions, req, now, reviewVars, presenceVars,
                   conversations, messages>>

\* POST /conversations up to its save
GetOrCreateConversation(s, actor, participantId) ==
    /\ CanStart(s)
    /\ LET r == NewReq("conversation", actor, 0, participantId) IN
       IF actor = participantId THEN Reply(s, r, "BadRequest")
       ELSE IF FindConversation(actor, participantId) # {}
       THEN Reply(s, [r EXCEPT !.o = CHOOSE c \in FindConversation(actor, participantId) :
                                        \A x \in FindConversation(actor, participantId) : c <= x],
                  "OK")
       ELSE /\ Len(conversations) < MaxConversations
            /\ Continue(s, r, "saveNewConversation",
                        NewConversation(<<actor, participantId>>), {}, {})
    /\ UNCHANGED <<orders, users, gig, notifs, sessions, now, social>>

\* new Conversation({participants}).save() by any caller of the model
CreateConversation(s, actor, participants) ==
    /\ CanStart(s)
    /\ Len(conversations) < MaxConversations
    /\ Continue(s, NewReq("newConversation", actor, 0, participants),
                "saveNewConversation", NewConversation(participants), {}, {})
    /\ UNCHANGED <<orders, users, gig, notifs, sessions, now, social>>

\* await conversation.save() of a new document: the pre-save hook, then the insert
SaveNewConversation(s) ==
    /\ req[s].pc = "saveNewConversation"
    /\ IF conversationPreSave(req[s].doc)
       THEN /\ conversations' = Append(conversations, req[s].doc)
            /\ Reply(s, [req[s] EXCEPT !.o = Len(conversations) + 1], "OK")
       ELSE /\ UNCHANGED conversations
            /\ Reply(s, req[s], "ServerError")
    /\ UNCHANGED <<orders, users, gig, notifs, sessions, now, reviewVars, presenceVars, messages, io>>

\* GET /conversations/:id/messages up to its first write
GetMessages(s, actor, c) ==
    /\ CanStart(s)
    /\ LET r == NewReq("getMessages", actor, c, "none") IN
       IF ~isParticipant(c, actor) THEN Reply(s, r, "Forbidden")
       ELSE Continue(s, r, "markMessages", conversations[c], {}, {})
    /\ UNCHANGED <<orders, users, gig, notifs, sessions, now, social>>

\* Message.updateMany({conversation, receiver, isRead: false}, {isRead, readAt}),
\* then conversation.unreadCount.set(userId, 0)
MarkMessages(s) ==
    /\ req[s].pc = "markMessages"
    /\ messages' = [m \in DOMAIN messages |->
                      IF /\ messages[m].conversation = req[s].o
                         /\ messages[m].receiver = req[s].actor
                         /\ ~messages[m].isRead
                      THEN [messages[m] EXCEPT !.isRead = TRUE, !.readAt = now]
                      ELSE messages[m]]
    /\ req' = [req EXCEPT ![s].pc = "saveConversation",
                          ![s].doc.unreadCount[req[s].actor] = 0,
                          ![s].mod = {req[s].actor}]
    /\ UNCHANGED <<orders, users, gig, notifs, sessions, now, reviewVars, presenceVars, conversations, io>>

\* POST /conversations/:id/messages up to its first write
SendMessage(s, actor, c, content) ==
    /\ CanStart(s)
    /\ LET r == NewReq("send", actor, c, content) IN
       IF ~isParticipant(c, actor) THEN Reply(s, r, "Forbidden")
       ELSE /\ Len(messages) < MaxMessages
            /\ Continue(s, r, "saveMessage", conversations[c], {}, {})
    /\ UNCHANGED <<orders, users, gig, notifs, sessions, now, social>>

\* await message.save(), then the assignments to the loaded conversation
SaveMessage(s) ==
    /\ req[s].pc = "saveMessage"
    /\ LET receiver == receiverOf(req[s].o, req[s].actor)
           m == NewMessage(req[s].o, req[s].actor, receiver, req[s].arg)
       IN IF messageValid(m)
          THEN /\ messages' = Append(messages, m)
               /\ req' = [req EXCEPT
                            ![s].pc = "saveConversation",
                            ![s].doc = [@ EXCEPT !.lastMessage = Len(messages) + 1,
                                                 !.lastActivity = now,
                                                 !.unreadCount[receiver] = @ + 1],
                            ![s].mod = {"lastMessage", "lastActivity", receiver}]
          ELSE /\ UNCHANGED messages
               /\ Reply(s, req[s], "ServerError")
    /\ UNCHANGED <<orders, users, gig, notifs, sessions, now, reviewVars, presenceVars, conversations, io>>

\* PATCH /messages/:id/read: Message.findOneAndUpdate({_id, receiver, isRead: false}),
\* then Conversation.findById and the decrement on the loaded conversation
MarkMessageRead(s, actor, m) ==
    /\ CanStart(s)
    /\ LET r == NewReq("read", actor, m, "none") IN
       IF m \in DOMAIN messages /\ messages[m].receiver = actor /\ ~messages[m].isRead
       THEN /\ messages' = [messages EXCEPT ![m].isRead = TRUE, ![m].readAt = now]
            /\ Continue(s, r, "loadConversation", NoDoc, {}, {})
       ELSE /\ UNCHANGED messages
            /\ Reply(s, r, "NotFound")
    /\ UNCHANGED <<orders, users, gig, notifs, sessions, now, reviewVars, presenceVars, conversations, io>>

\* Conversation.findById(message.conversation) and
\* unreadCount.set(userId, Math.max(0, currentUnread - 1))
LoadConversation(s) ==
    /\ req[s].pc = "loadConversation"
    /\ LET c == messages[req[s].o].conversation IN
       req' = [req EXCEPT
                 ![s].pc = "saveConversation",
                 ![s].o = c,
                 ![s].doc = [conversations[c] EXCEPT
                               !.unreadCount[req[s].actor] = Max(0, @ - 1)],
                 ![s].mod = {req[s].actor}]
    /\ UNCHANGED <<orders, users, gig, notifs, sessions, now, social>>

\* await conversation.save() of a loaded document: the pre-save hook, then
\* $set of the modified paths and of the modified keys of unreadCount
SaveConversation(s) ==
    /\ req[s].pc = "saveConversation"
    /\ LET c == req[s].o
           d == req[s].doc
           mod == req[s].mod
       IN IF conversationPreSave(d)
          THEN /\ conversations' =
                     [conversations EXCEPT ![c] =
                        [@ EXCEPT
                           !.lastMessage = IF "lastMessage" \in mod THEN d.lastMessage ELSE @,
                           !.lastActivity = IF "lastActivity" \in mod THEN d.lastActivity ELSE @,
                           !.unreadCount = [u \in Users |->
                                              IF u \in mod THEN d.unreadCount[u] ELSE @[u]]]]
               /\ req' = [req EXCEPT ![s].pc = IF req[s].op = "getMessages"
                                               THEN "done" ELSE "emit",
                                     ![s].resp = IF req[s].op = "getMessages"
                                                 THEN "OK" ELSE "none"]
          ELSE /\ UNCHANGED conversations
               /\ Reply(s, req[s], "ServerError")
    /\ UNCHANGED <<orders, users, gig, notifs, sessions, now, reviewVars, presenceVars, messages, io>>

\* getIO().to(room).emit(...): getIO throws while the handle is not set; an
\* emit to a room without sockets does nothing
Emit(s) ==
    /\ req[s].pc = "emit"
    /\ IF io
       THEN Reply(s, req[s], IF req[s].op = "send" THEN "Created" ELSE "OK")
       ELSE Reply(s, req[s], "ServerError")
    /\ UNCHANGED <<orders, users, gig, notifs, sessions, now, social>>

--------------------------------------------------------------------------
(* utils/notifications.js and the notification event of socket/socketHandler.js *)

\* {isRead: true, readAt: new Date()} applied to one stored notification
ReadNotification(n) ==
    (notifs (-) SetToBag({n})) (+) SetToBag({[n EXCEPT !.isRead = TRUE, !.readAt = now]})

\* the filter of Notification.findByIdAndUpdate(notificationId, ...) in the
\* socket event: the id alone
socketFilter(n, userId) == BagIn(n, notifs)

\* the filter {_id: notificationId, recipient: userId} of markNotificationAsRead
markFilter(n, userId) == BagIn(n, notifs) /\ n.recipient = userId

\* markNotificationAsRead(notificationId, userId): one findOneAndUpdate
markNotificationAsRead(s, userId, n) ==
    /\ CanStart(s)
    /\ notifs' = IF markFilter(n, userId) THEN ReadNotification(n) ELSE notifs
    /\ Reply(s, NewReq("markRead", userId, 0, n), "OK")
    /\ UNCHANGED <<orders, users, gig, sessions, now, social>>

\* socket.on('mark_notification_read') on a socket of userId: one findByIdAndUpdate
SocketMarkNotificationRead(s, userId, n) ==
    /\ CanStart(s)
    /\ io
    /\ notifs' = IF socketFilter(n, userId) THEN ReadNotification(n) ELSE notifs
    /\ Reply(s, NewReq("socketMarkRead", userId, 0, n), "OK")
    /\ UNCHANGED <<orders, users, gig, sessions, now, social>>

--------------------------------------------------------------------------
(* presence: the connection and disconnect handlers of socket/socketHandler.js *)

\* what is left of the store besides the presence fields
notPresence == <<orders, users, gig, notifs, sessions, req, now, reviewVars, chatVars>>

\* io.on('connection'): User.findByIdAndUpdate(userId, {isOnline: true}).exec(),
\* sent and not awaited
Connect(u) ==
    /\ io
    /\ sockets[u] < MaxSockets
    /\ BagCardinality(updates) < MaxUpdates
    /\ sockets' = [sockets EXCEPT ![u] = @ + 1]
    /\ updates' = updates (+) SetToBag({[user |-> u, isOnline |-> TRUE]})
    /\ UNCHANGED <<isOnline, notPresence>>

\* socket.on('disconnect'): User.findByIdAndUpdate(userId, {isOnline: false}).exec(),
\* sent and not awaited
Disconnect(u) ==
    /\ sockets[u] > 0
    /\ BagCardinality(updates) < MaxUpdates
    /\ sockets' = [sockets EXCEPT ![u] = @ - 1]
    /\ updates' = updates (+) SetToBag({[user |-> u, isOnline |-> FALSE]})
    /\ UNCHANGED <<isOnline, notPresence>>

\* the store applies one of the updates it has been sent
ApplyUpdate(p) ==
    /\ BagIn(p, updates)
    /\ isOnline' = [isOnline EXCEPT ![p.user] = p.isOnline]
    /\ updates' = updates (-) SetToBag({p})
    /\ UNCHANGED <<sockets, notPresence>>

--------------------------------------------------------------------------
(* models/Review.js, routes/reviews.js, updateRating of models/Gig.js and User.js *)

\* new Review({order, gig, reviewer, reviewee, rating, comment})
NewReview(d, reviewer, rating) ==
    [order |-> d._id, gig |-> d.gig, reviewer |-> reviewer,
     reviewee |-> IF d.buyer = reviewer THEN d.seller ELSE d.buyer,
     rating |-> rating]

\* reviewSchema: gig is required, rating is a number from 1 to 5
reviewValid(r) == r.gig # NoGig /\ r.rating >= 1 /\ r.rating <= 5

\* Review.findOne({order, reviewer})
existingReview(o, reviewer) ==
    {r \in BagToSet(reviews) : r.order = o /\ r.reviewer = reviewer}

\* a collection without the unique index
indexAdmitsAll(r) == TRUE

\* reviewSchema.index({order: 1, reviewer: 1}, {unique: true}): what an insert
\* has to pass
indexAdmits(r) == existingReview(r.order, r.reviewer) = {}

\* Review.find({gig: this._id}) of a gig, Review.find({reviewee: this._id}) of a user
reviewsOf(t) ==
    {r \in BagToSet(reviews) : IF t = TheGig THEN r.gig = t ELSE r.reviewee = t}

RECURSIVE totalRating(_)
\* reviews.reduce((sum, review) => sum + review.rating, 0)
totalRating(S) ==
    IF S = {} THEN 0
    ELSE LET r == CHOOSE x \in S : TRUE
         IN r.rating * CopiesIn(r, reviews) + totalRating(S \ {r})

RECURSIVE lengthOf(_)
\* reviews.length
lengthOf(S) ==
    IF S = {} THEN 0
    ELSE LET r == CHOOSE x \in S : TRUE
         IN CopiesIn(r, reviews) + lengthOf(S \ {r})

\* an average cut down to a whole number
updateRatingFloor(t) ==
    IF lengthOf(reviewsOf(t)) > 0
    THEN [rating |-> Quotient(totalRating(reviewsOf(t)) \div lengthOf(reviewsOf(t)), 1),
          totalReviews |-> lengthOf(reviewsOf(t))]
    ELSE [rating |-> Quotient(0, 1), totalReviews |-> 0]

\* the assignments of updateRating
updateRating(t) ==
    IF lengthOf(reviewsOf(t)) > 0
    THEN [rating |-> Quotient(totalRating(reviewsOf(t)), lengthOf(reviewsOf(t))),
          totalReviews |-> lengthOf(reviewsOf(t))]
    ELSE [rating |-> Quotient(0, 1), totalReviews |-> 0]

\* POST /reviews up to its first write
CreateReview(s, actor, o, rating) ==
    /\ CanStart(s)
    /\ LET r == NewReq("review", actor, o, rating) IN
       IF o \notin DOMAIN orders THEN Reply(s, r, "NotFound")
       ELSE IF orders[o].status # "completed" THEN Reply(s, r, "InvalidTransition")
       ELSE IF orders[o].buyer # actor /\ orders[o].seller # actor
            THEN Reply(s, r, "Forbidden")
       ELSE IF existingReview(o, actor) # {} THEN Reply(s, r, "AlreadyReviewed")
       ELSE Continue(s, r, "saveReview", orders[o], {},
                     {Ntf(IF orders[o].buyer = actor THEN orders[o].seller
                          ELSE orders[o].buyer, "review_received", o)})
    /\ UNCHANGED <<orders, users, gig, notifs, sessions, now, social>>

\* await review.save(): validation, then the insert under the unique index
SaveReview(s) ==
    /\ req[s].pc = "saveReview"
    /\ LET r == NewReview(req[s].doc, req[s].actor, req[s].arg) IN
       IF reviewValid(r) /\ indexAdmits(r)
       THEN /\ reviews' = reviews (+) SetToBag({r})
            /\ req' = [req EXCEPT ![s].pc = "saveReviewed"]
       ELSE /\ UNCHANGED reviews
            /\ Reply(s, req[s], "ServerError")
    /\ UNCHANGED <<orders, users, gig, notifs, sessions, now, ratings, chatVars, presenceVars>>

\* order.isReviewed.buyer (or .seller) = true; await order.save()
SaveReviewed(s) ==
    /\ req[s].pc = "saveReviewed"
    /\ LET o == req[s].o
           role == IF req[s].doc.buyer = req[s].actor THEN "buyer" ELSE "seller"
       IN /\ orders' = [orders EXCEPT ![o].isReviewed[role] = TRUE]
          /\ req' = [req EXCEPT ![s].pc = "findReviews",
                                ![s].mod = {req[s].doc.gig,
                                            IF role = "buyer" THEN req[s].doc.seller
                                            ELSE req[s].doc.buyer}]
    /\ UNCHANGED <<users, gig, notifs, sessions, now, social>>

\* gig.updateRating() / user.updateRating() called on a loaded document
UpdateRating(s, t) ==
    /\ CanStart(s)
    /\ req' = [req EXCEPT ![s] = [NewReq("updateRating", "none", 0, t) EXCEPT
                                   !.pc = "findReviews", !.mod = {t}]]
    /\ UNCHANGED <<orders, users, gig, notifs, sessions, now, social>>

\* await Review.find(...) of updateRating and the assignments that follow
FindReviews(s) ==
    /\ req[s].pc = "findReviews"
    /\ req' = [req EXCEPT ![s].pc = "saveRating",
                          ![s].doc = [t \in req[s].mod |-> updateRating(t)]]
    /\ UNCHANGED <<orders, users, gig, notifs, sessions, now, social>>

\* await this.save() of updateRating
SaveRating(s) ==
    /\ req[s].pc = "saveRating"
    /\ ratings' = [t \in Targets |-> IF t \in req[s].mod THEN req[s].doc[t] ELSE ratings[t]]
    /\ IF req[s].op = "review"
       THEN req' = [req EXCEPT ![s].pc = "notify"]
       ELSE Reply(s, req[s], "OK")
    /\ UNCHANGED <<orders, users, gig, notifs, sessions, now, reviews, chatVars, presenceVars>>

--------------------------------------------------------------------------
(* The environment *)

\* the buyer completes the provider's checkout of session k
StripePay(k) ==
    /\ k \in DOMAIN sessions
    /\ ~sessions[k].paid
    /\ sessions' = [sessions EXCEPT ![k].paid = TRUE]
    /\ UNCHANGED <<orders, users, gig, notifs, req, now, social>>

\* PUT /gigs/:id by the gig's freelancer: a new basic price
UpdateGig(price) ==
    /\ gig.pricing.basic.price # price
    /\ gig' = [gig EXCEPT !.pricing.basic.price = price]
    /\ UNCHANGED <<orders, users, notifs, sessions, req, now, social>>

Tick ==
    /\ now < MaxTime
    /\ now' = now + 1
    /\ UNCHANGED <<orders, users, gig, notifs, sessions, req, social>>

--------------------------------------------------------------------------
(* Specifications *)

\* a request arrives in slot s; a caller whom the handler turns away is
\* tried with one body only
Start(s) ==
    \/ \E p \in {"basic", "premium"}, w \in BOOLEAN :
          CreateCheckoutSession(s, "buyer", p, w)
    \/ CreateCheckoutSession(s, "seller", "basic", FALSE)
    \/ \E p \in {400, 15000}, w \in BOOLEAN :
          CreateCustomOfferPayment(s, "seller", "buyer", p, 1, w)
    \/ \E o \in OrderIds, st \in Statuses : UpdateStatus(s, "seller", o, st)
    \/ \E a \in Users \ {"seller"}, o \in OrderIds : UpdateStatus(s, a, o, "completed")
    \/ \E o \in OrderIds, m \in Messages : Deliver(s, "seller", o, m)
    \/ \E a \in Users \ {"seller"}, o \in OrderIds : Deliver(s, a, o, "m1")
    \/ \E a \in Users, o \in OrderIds : RequestRevision(s, a, o, "m1")
    \/ \E a \in Users, o \in OrderIds : Accept(s, a, o)
    \/ \E a \in Users, o \in OrderIds : Cancel(s, a, o, "m1")
    \/ \E k \in SessionIds : PaymentSuccess(s, "buyer", k)
    \/ \E k \in SessionIds : WebhookCheckoutCompleted(s, k)
    \/ \E k \in IntentIds : WebhookPaymentFailed(s, k)

\* a request in flight takes its next step
Step(s) ==
    \/ IncUser(s)
    \/ IncGig(s)
    \/ SaveOrder(s)
    \/ ParallelSave(s)
    \/ createNotification(s)
    \/ Respond(s)

Env ==
    \/ \E k \in SessionIds : StripePay(k)
    \/ Tick

\* requests one at a time, at a fixed gig price; the environment moves
\* between the requests
Next ==
    \/ Start(1)
    \/ Step(1)
    \/ AllIdle /\ Env

Spec == Init /\ [][Next]_vars

\* requests one at a time, with changes of the gig's price, on one day
NextFees ==
    \/ Start(1)
    \/ Step(1)
    \/ AllIdle /\ \E k \in SessionIds : StripePay(k)
    \/ AllIdle /\ \E p \in Prices : UpdateGig(p)

SpecFees == Init /\ [][NextFees]_vars

\* one checkout session: the webhook events in slot 1, delivered any number
\* of times, and the one session-success request of the buyer in slot 2,
\* interleaving at their awaits
NextPay ==
    \/ \E w \in BOOLEAN : CreateCheckoutSession(1, "buyer", "basic", w)
    \/ \E k \in SessionIds : StripePay(k)
    \/ \E k \in SessionIds : PaymentSuccess(2, "buyer", k)
    \/ \E k \in SessionIds : WebhookCheckoutCompleted(1, k)
    \/ \E s \in Slots : SaveOrder(s)
    \/ \E s \in Slots : createNotification(s)
    \/ Respond(1)

SpecPay == Init /\ [][NextPay]_vars

\* the message handlers, one request at a time, on one day; setupSocket may
\* come before or after any of them
StartMsg(s) ==
    \/ \E b \in Users : GetOrCreateConversation(s, "buyer", b)
    \/ \E ps \in {<<"buyer">>, <<"buyer", "seller", "other">>} :
          CreateConversation(s, "buyer", ps)
    \/ \E a \in Users, c \in 1..MaxConversations : GetMessages(s, a, c)
    \/ \E a \in Users, c \in 1..MaxConversations, t \in {"m1", ""} :
          SendMessage(s, a, c, t)
    \/ \E a \in Users, m \in 1..MaxMessages : MarkMessageRead(s, a, m)

StepMsg(s) ==
    \/ SaveNewConversation(s)
    \/ MarkMessages(s)
    \/ SaveMessage(s)
    \/ LoadConversation(s)
    \/ SaveConversation(s)
    \/ Emit(s)
    \/ Respond(s)

NextMsg ==
    \/ StartMsg(1)
    \/ StepMsg(1)
    \/ AllIdle /\ setupSocket

SpecMsg == Init /\ [][NextMsg]_vars

\* the notifications of one order's payment events and the requests that
\* mark them read
NextNotify ==
    \/ CreateCheckoutSession(1, "buyer", "basic", TRUE)
    \/ \E k \in SessionIds : StripePay(k)
    \/ \E k \in SessionIds : WebhookCheckoutCompleted(1, k)
    \/ \E k \in SessionIds : WebhookPaymentFailed(1, k)
    \/ SaveOrder(1)
    \/ createNotification(1)
    \/ Respond(1)
    \/ AllIdle /\ setupSocket
    \/ AllIdle /\ Tick
    \/ \E u \in Users, n \in BagToSet(notifs) : markNotificationAsRead(1, u, n)
    \/ \E u \in Users, n \in BagToSet(notifs) : SocketMarkNotificationRead(1, u, n)

SpecNotify == Init /\ [][NextNotify]_vars

\* an order of the gig's basic package that has been paid through the
\* webhook, delivered and accepted on day 0
CompletedOrder(id, buyer) ==
    [NewOrder(id, buyer, gig.freelancer, TheGig, "basic", gig.pricing.basic, id, PI(id))
       EXCEPT !.status = "completed", !.paymentStatus = "paid",
              !.deliveries = <<[message |-> "m1"]>>, !.deliveryDate = 0,
              !.autoCompleteAt = AutoCompleteDays, !.completedAt = 0]

\* the notifications that the life of such an order has left
CompletedNotifications(d) ==
    {Ntf(d.seller, "new_order", d._id), Ntf(d.buyer, "payment_received", d._id),
     Ntf(d.seller, "order_completed", d._id)}

\* the running server with two completed orders of the gig, of two buyers
InitReview ==
    /\ now = 0
    /\ gig = [freelancer |-> "seller", totalOrders |-> 2,
              pricing |-> [basic |-> [price |-> 15000, deliveryTime |-> 1, revisions |-> 1]]]
    /\ orders = <<CompletedOrder(1, "buyer"), CompletedOrder(2, "other")>>
    /\ users = [u \in Users |->
                  IF u = "seller"
                  THEN [totalEarnings |-> orders[1].netAmount + orders[2].netAmount,
                        completedOrders |-> 2]
                  ELSE [totalEarnings |-> 0, completedOrders |-> 0]]
    /\ notifs = SetToBag(CompletedNotifications(orders[1]) \cup
                         CompletedNotifications(orders[2]))
    /\ sessions = <<[paid |-> TRUE, sent |-> TRUE], [paid |-> TRUE, sent |-> TRUE]>>
    /\ req = [s \in Slots |-> IdleReq]
    /\ reviews = EmptyBag
    /\ ratings = [t \in Targets |-> NoRating]
    /\ conversations = <<>>
    /\ messages = <<>>
    /\ io = TRUE
    /\ InitPresence

\* the ratings a reviewer gives
Stars == {2, 4, 5}

StepReview(s) ==
    \/ SaveReview(s)
    \/ SaveReviewed(s)
    \/ FindReviews(s)
    \/ SaveRating(s)
    \/ createNotification(s)
    \/ Respond(s)

\* reviews and rating updates, one request at a time
NextRating ==
    \/ \E a \in Users, o \in 1..2, r \in Stars : CreateReview(1, a, o, r)
    \/ \E t \in Targets : UpdateRating(1, t)
    \/ StepReview(1)

SpecRating == InitReview /\ [][NextRating]_vars

\* create-review requests for order 1, two at a time, interleaving at their awaits
NextReview ==
    \/ \E s \in Slots, a \in {"buyer", "seller"}, r \in {0, 4, 5} : CreateReview(s, a, 1, r)
    \/ \E s \in Slots : StepReview(s)

SpecReview == InitReview /\ [][NextReview]_vars

\* an order of the gig's basic package that has been paid through the
\* webhook, taken in progress and delivered on day 0
DeliveredOrder(id, buyer) ==
    [NewOrder(id, buyer, gig.freelancer, TheGig, "basic", gig.pricing.basic, id, PI(id))
       EXCEPT !.status = "delivered", !.paymentStatus = "paid",
              !.deliveries = <<[message |-> "m1"]>>, !.deliveryDate = 0,
              !.autoCompleteAt = AutoCompleteDays]

\* the running server with one delivered order, nothing credited yet
InitDelivered ==
    /\ now = 0
    /\ gig = [freelancer |-> "seller", totalOrders |-> 0,
              pricing |-> [basic |-> [price |-> 15000, deliveryTime |-> 1, revisions |-> 1]]]
    /\ orders = <<DeliveredOrder(1, "buyer")>>
    /\ users = [u \in Users |-> [totalEarnings |-> 0, completedOrders |-> 0]]
    /\ notifs = SetToBag(PaidNotifications(orders[1]))
    /\ sessions = <<[paid |-> TRUE, sent |-> TRUE]>>
    /\ req = [s \in Slots |-> IdleReq]
    /\ reviews = EmptyBag
    /\ ratings = [t \in Targets |-> NoRating]
    /\ conversations = <<>>
    /\ messages = <<>>
    /\ io = TRUE
    /\ InitPresence

\* the requests on a delivered order, of the buyer and of the seller, two at
\* a time, interleaving at their awaits
NextRace ==
    \/ \E s \in Slots : Accept(s, "buyer", 1)
    \/ \E s \in Slots : UpdateStatus(s, "seller", 1, "completed")
    \/ \E s \in Slots : RequestRevision(s, "buyer", 1, "m1")
    \/ \E s \in Slots : IncUser(s)
    \/ \E s \in Slots : IncGig(s)
    \/ \E s \in Slots : SaveOrder(s)
    \/ \E s \in Slots : createNotification(s)
    \/ \E s \in Slots : Respond(s)

SpecRace == InitDelivered /\ [][NextRace]_vars

\* the running server with the conversation of the buyer and the seller,
\* as POST /conversations has created it, and no message yet
InitChat ==
    /\ Init!1 /\ Init!2 /\ Init!3 /\ Init!4 /\ Init!5 /\ Init!6 /\ Init!7
    /\ reviews = EmptyBag
    /\ ratings = [t \in Targets |-> NoRating]
    /\ conversations = <<NewConversation(<<"buyer", "seller">>)>>
    /\ messages = <<>>
    /\ io = TRUE
    /\ InitPresence

\* the buyer's sends (either slot) and the seller's reading requests (slot 2)
\* on their conversation, two at a time, interleaving at their awaits
NextChat ==
    \/ \E s \in Slots : SendMessage(s, "buyer", 1, "m1")
    \/ GetMessages(2, "seller", 1)
    \/ \E m \in 1..MaxMessages : MarkMessageRead(2, "seller", m)
    \/ \E s \in Slots : MarkMessages(s)
    \/ \E s \in Slots : SaveMessage(s)
    \/ \E s \in Slots : LoadConversation(s)
    \/ \E s \in Slots : SaveConversation(s)
    \/ \E s \in Slots : Emit(s)
    \/ \E s \in Slots : Respond(s)

SpecChat == InitChat /\ [][NextChat]_vars

\* get-or-create requests of the buyer and of the seller, two at a time,
\* interleaving at their awaits
NextPair ==
    \/ \E s \in Slots, a \in {"buyer", "seller"}, b \in Users :
          GetOrCreateConversation(s, a, b)
    \/ \E s \in Slots : SaveNewConversation(s)
    \/ \E s \in Slots : Respond(s)

SpecPair == Init /\ [][NextPair]_vars

\* the sockets of the users connect and disconnect
NextPresence ==
    \/ setupSocket
    \/ \E u \in Users : Connect(u)
    \/ \E u \in Users : Disconnect(u)
    \/ \E p \in BagToSet(updates) : ApplyUpdate(p)

SpecPresence == Init /\ [][NextPresence]_vars

--------------------------------------------------------------------------
(* Properties *)

Done(s, op) == req[s].pc = "done" /\ req[s].op = op
\* the order a finished request named, as the request found it
Pre(s) == req[s].snap.orders[req[s].o]
Named(s) == req[s].o \in DOMAIN req[s].snap.orders
StoreUnchanged(s) ==
    /\ orders = req[s].snap.orders
    /\ users = req[s].snap.users
    /\ gig.totalOrders = req[s].snap.totalOrders
    /\ notifs = req[s].snap.notifs

\* the transition table of the specification
TableAllowed(status) ==
    CASE status = "pending" -> {"requirements_pending", "in_progress", "cancelled"}
      [] status = "requirements_pending" -> {"in_progress", "cancelled"}
      [] status = "in_progress" -> {"delivered", "cancelled"}
      [] status = "delivered" -> {"completed", "revision_requested", "cancelled"}
      [] status = "revision_requested" -> {"in_progress", "delivered"}
      [] OTHER -> {}

\* C1: a generic status update by the order's seller that asks for a status
\* the transition table does not allow from the current one fails with
\* InvalidTransition and leaves the order, the users' counters, the gig's
\* counter and the notifications as they were.
C1_InvalidTransitionRejected ==
    \A s \in Slots :
        (/\ Done(s, "status")
         /\ Named(s)
         /\ req[s].actor = Pre(s).seller
         /\ req[s].arg \notin TableAllowed(Pre(s).status))
        => (req[s].resp = "InvalidTransition" /\ StoreUnchanged(s))

C1_Witness ==
    \E s \in Slots :
        /\ Done(s, "status")
        /\ Named(s)
        /\ req[s].actor = Pre(s).seller
        /\ Pre(s).status = "completed"
        /\ req[s].arg = "in_progress"
        /\ req[s].resp = "InvalidTransition"

Terminal == {"completed", "cancelled", "disputed"}

\* C2: once an order is completed, cancelled or disputed, no step of the
\* system changes any of its fields other than the isReviewed flags.
C2_TerminalFinal ==
    [][\A o \in DOMAIN orders :
          orders[o].status \in Terminal
          => [orders'[o] EXCEPT !.isReviewed = orders[o].isReviewed] = orders[o]]_vars

\* the payment fields of order o are as request s found them, and so are the
\* notifications
PaymentUntouched(s, o) ==
    /\ orders[o].paymentStatus = req[s].snap.orders[o].paymentStatus
    /\ orders[o].status = req[s].snap.orders[o].status
    /\ orders[o].paymentIntentId = req[s].snap.orders[o].paymentIntentId
    /\ notifs = req[s].snap.notifs

\* a checkout_completed event in slot s that the provider had sent before
Redelivery(s) ==
    /\ req[s].op = "checkout_completed"
    /\ req[s].snap.sessions[req[s].o].sent

C4_PaidExactlyOnce ==
    (/\ Quiet
     /\ 1 \in DOMAIN orders
     /\ (orders[1].paymentStatus = "paid" \/ notifs # EmptyBag))
    => /\ orders[1].paymentStatus = "paid"
       /\ orders[1].status = "requirements_pending"
       /\ CopiesIn(Ntf(orders[1].seller, "new_order", 1), notifs) = 1
       /\ CopiesIn(Ntf(orders[1].buyer, "payment_received", 1), notifs) = 1

\* what the checkout.session.completed case makes of a document
WebhookResult(d, k) == IF ShouldApplyCheckout(d) THEN CheckoutCompletedDoc(d, k) ELSE d
WebhookNotifications(d, k) ==
    IF ShouldApplyCheckout(d) THEN PaidNotifications(CheckoutCompletedDoc(d, k)) ELSE {}

\* C5: on every order whose session is paid, the session-success request and
\* the checkout_completed webhook produce the same paymentStatus, status,
\* paymentIntentId and deliveryDate and the same notifications, and neither
\* changes an order that is already paid.
C5_SuccessEqualsWebhook ==
    \A o \in DOMAIN orders :
        LET d == orders[o]
            k == d.stripeSessionId
            a == SuccessDoc(d, k)
            b == WebhookResult(d, k)
        IN sessions[k].paid
           => /\ a.paymentStatus = b.paymentStatus
              /\ a.status = b.status
              /\ a.paymentIntentId = b.paymentIntentId
              /\ a.deliveryDate = b.deliveryDate
              /\ PaidNotifications(a) = WebhookNotifications(d, k)
              /\ (d.paymentStatus = "paid" => a = d /\ b = d)

\* the fee rules of the specification, in cents
FeesAsSpecified(d) ==
    LET subtotal == d.packageDetails.price IN
    /\ d.serviceFee = Max(200, (subtotal * 5 + 50) \div 100)
    /\ d.totalAmount = subtotal + d.serviceFee
    /\ d.netAmount = subtotal - ((subtotal * 20 + 50) \div 100)
    /\ d.serviceFee >= 200

\* C6: an order is created with the fees the specification gives for the
\* package price at purchase, and no step changes its subtotal, totalAmount,
\* serviceFee or netAmount afterwards, whatever happens to the gig's price.
C6_FeesFixed ==
    [][\A o \in DOMAIN orders' :
          /\ FeesAsSpecified(orders'[o])
          /\ o \notin DOMAIN orders
             => orders'[o].packageDetails.price = gig.pricing[orders'[o].package].price
          /\ o \in DOMAIN orders
             => /\ orders'[o].packageDetails = orders[o].packageDetails
                /\ orders'[o].totalAmount = orders[o].totalAmount
                /\ orders'[o].serviceFee = orders[o].serviceFee
                /\ orders'[o].netAmount = orders[o].netAmount]_vars

C6_Witness ==
    \E o \in DOMAIN orders :
        /\ orders[o].packageDetails.price = 500
        /\ orders[o].serviceFee = 200
        /\ orders[o].totalAmount = 700
        /\ orders[o].netAmount = 400
        /\ gig.pricing.basic.price = 5010
        /\ orders[o].status = "completed"

\* C7: accept by the buyer on a delivered order completes it, stamps
\* completedAt, adds the order's stored netAmount (120.00 for a 150.00
\* purchase, with serviceFee 7.50 and totalAmount 157.50) to the seller's
\* totalEarnings and 1 to the seller's completedOrders and to the gig's
\* totalOrders; on an order in any other status it fails and changes nothing.
C7_AcceptCredits ==
    \A s \in Slots :
        (Done(s, "accept") /\ Named(s) /\ req[s].actor = Pre(s).buyer)
        => LET o == req[s].o
               seller == Pre(s).seller
           IN IF Pre(s).status = "delivered"
              THEN /\ req[s].resp = "OK"
                   /\ orders[o].status = "completed"
                   /\ orders[o].completedAt = req[s].snap.now
                   /\ users[seller].totalEarnings =
                         req[s].snap.users[seller].totalEarnings + Pre(s).netAmount
                   /\ users[seller].completedOrders =
                         req[s].snap.users[seller].completedOrders + 1
                   /\ gig.totalOrders = req[s].snap.totalOrders + 1
                   /\ Pre(s).packageDetails.price = 15000
                      => /\ Pre(s).netAmount = 12000
                         /\ Pre(s).serviceFee = 750
                         /\ Pre(s).totalAmount = 15750
              ELSE req[s].resp # "OK" /\ StoreUnchanged(s)

C7_Witness ==
    \E s \in Slots :
        /\ Done(s, "accept")
        /\ req[s].resp = "OK"
        /\ Pre(s).status = "delivered"
        /\ Pre(s).packageDetails.price = 15000
        /\ users["seller"].totalEarnings = req[s].snap.users["seller"].totalEarnings + 12000
        /\ orders[req[s].o].status = "completed"

\* C8: between requests, a seller has earnings and completed orders only if
\* one of the orders is stored as completed.
C8_CreditOnlyOnCompleted ==
    (AllIdle /\ \A o \in DOMAIN orders : orders[o].status # "completed")
    => \A u \in Users : users[u].totalEarnings = 0 /\ users[u].completedOrders = 0

LimitReached(d) == Len(d.revisions) = d.packageDetails.revisions

\* C9 as stated: requestRevision on an order whose revision records number
\* packageDetails.revisions fails with LimitExceeded, whoever calls it, and
\* leaves the order unchanged; no order ever holds more revision records than
\* packageDetails.revisions.
C9_LimitExceededAnyActor ==
    /\ \A o \in DOMAIN orders :
          Len(orders[o].revisions) <= orders[o].packageDetails.revisions
    /\ \A s \in Slots :
          (Done(s, "revision") /\ Named(s) /\ LimitReached(Pre(s)))
          => (req[s].resp = "LimitExceeded" /\ orders = req[s].snap.orders)

\* C9 as amended: requestRevision on an order whose revision records number
\* packageDetails.revisions fails and leaves the order unchanged: with
\* Forbidden for a caller other than the buyer, with InvalidTransition for the
\* buyer while the order is not delivered, with LimitExceeded for the buyer
\* on a delivered order; no order ever holds more revision records than
\* packageDetails.revisions.
C9_RevisionLimit ==
    /\ \A o \in DOMAIN orders :
          Len(orders[o].revisions) <= orders[o].packageDetails.revisions
    /\ \A s \in Slots :
          (Done(s, "revision") /\ Named(s) /\ LimitReached(Pre(s)))
          => /\ orders = req[s].snap.orders
             /\ req[s].resp =
                   IF req[s].actor # Pre(s).buyer THEN "Forbidden"
                   ELSE IF Pre(s).status # "delivered" THEN "InvalidTransition"
                   ELSE "LimitExceeded"

C9_Witness ==
    \E s \in Slots :
        /\ Done(s, "revision")
        /\ Named(s)
        /\ req[s].actor = Pre(s).buyer
        /\ Pre(s).status = "delivered"
        /\ Pre(s).packageDetails.revisions = 1
        /\ Len(Pre(s).revisions) = 1
        /\ req[s].resp = "LimitExceeded"

TransitionOps == {"status", "deliver", "revision", "accept", "cancel"}
TransitionTypes == {"new_order", "order_delivered", "order_completed",
                    "order_cancelled", "revision_requested", "payment_received"}

\* C10: a finished status update, deliver, requestRevision, accept or cancel
\* that has changed the order's status reports success and has persisted
\* exactly one notification, addressed to the other party of the order, of
\* one of the six order notification types.
C10_OneNotificationPerTransition ==
    \A s \in Slots :
        (/\ req[s].pc = "done"
         /\ req[s].op \in TransitionOps
         /\ Named(s)
         /\ orders[req[s].o].status # Pre(s).status)
        => /\ req[s].resp = "OK"
           /\ \E t \in TransitionTypes :
                 notifs = req[s].snap.notifs (+)
                          SetToBag({Ntf(IF req[s].actor = Pre(s).buyer
                                        THEN Pre(s).seller ELSE Pre(s).buyer,
                                        t, req[s].o)})

\* the caller of a finished request does not have the role its operation asks for
WrongRole(s) ==
    \/ req[s].op \in {"status", "deliver"} /\ req[s].actor # Pre(s).seller
    \/ req[s].op \in {"revision", "accept"} /\ req[s].actor # Pre(s).buyer
    \/ req[s].op = "cancel" /\ req[s].actor \notin {Pre(s).buyer, Pre(s).seller}

\* C11: a status update or deliver by anyone but the order's seller, a
\* requestRevision or accept by anyone but its buyer and a cancel by a user
\* who is neither fail with Forbidden in every status of the order and leave
\* the order, the users' counters and the notifications unchanged.
C11_RoleGuards ==
    \A s \in Slots :
        (req[s].pc = "done" /\ Named(s) /\ WrongRole(s))
        => (req[s].resp = "Forbidden" /\ StoreUnchanged(s))

C11_Witness ==
    \E s \in Slots :
        /\ Done(s, "cancel")
        /\ Named(s)
        /\ req[s].actor = "other"
        /\ Pre(s).status = "delivered"
        /\ req[s].resp = "Forbidden"
        /\ orders = req[s].snap.orders

\* C12: deliver by the seller succeeds only on an order in_progress; a
\* successful deliver has appended exactly one delivery record, with the
\* given message, after the earlier ones, has left the earlier delivery and
\* all revision records as they were and has set the status to delivered; on
\* an order in any other status deliver fails and leaves the order unchanged.
C12_DeliverAppends ==
    \A s \in Slots :
        (Done(s, "deliver") /\ Named(s) /\ req[s].actor = Pre(s).seller)
        => LET d == orders[req[s].o]
               n == Len(Pre(s).deliveries)
           IN /\ req[s].resp = "OK"
                 => /\ Pre(s).status = "in_progress"
                    /\ d.status = "delivered"
                    /\ Len(d.deliveries) = n + 1
                    /\ SubSeq(d.deliveries, 1, n) = Pre(s).deliveries
                    /\ d.deliveries[n + 1] = [message |-> req[s].arg]
                    /\ d.revisions = Pre(s).revisions
              /\ Pre(s).status # "in_progress"
                 => (req[s].resp # "OK" /\ d = Pre(s))

C12_Witness ==
    \E s \in Slots :
        /\ Done(s, "deliver")
        /\ req[s].resp = "OK"
        /\ Len(Pre(s).deliveries) = 1
        /\ Len(Pre(s).revisions) = 1
        /\ Pre(s).deliveries[1].message = "m1"
        /\ req[s].arg = "m2"
        /\ Len(orders[req[s].o].deliveries) = 2

\* C13: every step that takes an order into status delivered, a later entry
\* after a revision included, stores deliveryDate = the time of the entry and
\* autoCompleteAt = that time plus 3 days.
C13_DeliveredStamps ==
    [][\A o \in DOMAIN orders :
          (orders[o].status # "delivered" /\ orders'[o].status = "delivered")
          => /\ orders'[o].deliveryDate = now
             /\ orders'[o].autoCompleteAt = now + 3]_vars

\* C14: cancel by the buyer or the seller succeeds exactly when the order is
\* not completed, cancelled or disputed; then the order is cancelled and its
\* cancellation record holds the reason, the caller and approved = true;
\* otherwise the request fails and the order, cancellation record included,
\* is unchanged.
C14_Cancel ==
    \A s \in Slots :
        (Done(s, "cancel") /\ Named(s) /\ req[s].actor \in {Pre(s).buyer, Pre(s).seller})
        => LET d == orders[req[s].o] IN
           IF Pre(s).status \notin Terminal
           THEN /\ req[s].resp = "OK"
                /\ d.status = "cancelled"
                /\ d.cancellation = [reason |-> req[s].arg, requestedBy |-> req[s].actor,
                                     approved |-> TRUE]
           ELSE req[s].resp # "OK" /\ d = Pre(s)

C14_Witness ==
    \E s \in Slots :
        /\ Done(s, "cancel")
        /\ Named(s)
        /\ req[s].actor = "buyer"
        /\ Pre(s).status = "delivered"
        /\ req[s].resp = "OK"
        /\ orders[req[s].o].status = "cancelled"
        /\ orders[req[s].o].cancellation.requestedBy = "buyer"

\* the orders whose payment reference a payment_failed event names, as the
\* request found them
Matching(s) ==
    {o \in DOMAIN req[s].snap.orders : req[s].snap.orders[o].paymentIntentId = PI(req[s].o)}

\* C15: a payment_failed event whose payment reference matches an order has
\* set the order's paymentStatus to failed and its status to cancelled and
\* persisted one notification for the buyer, also when the order was in that
\* state before; an event matching no order has changed nothing.
C15_PaymentFailed ==
    \A s \in Slots :
        Done(s, "payment_failed")
        => IF Matching(s) = {}
           THEN StoreUnchanged(s)
           ELSE \A o \in Matching(s) :
                   /\ orders[o].paymentStatus = "failed"
                   /\ orders[o].status = "cancelled"
                   /\ notifs = req[s].snap.notifs (+)
                               SetToBag({Ntf(orders[o].buyer, "system", o)})
                   /\ [orders[o] EXCEPT !.paymentStatus = req[s].snap.orders[o].paymentStatus,
                                         !.status = req[s].snap.orders[o].status]
                      = req[s].snap.orders[o]

C15_Witness ==
    \E s \in Slots :
        /\ Done(s, "payment_failed")
        /\ Matching(s) # {}
        /\ \A o \in Matching(s) :
              /\ req[s].snap.orders[o].paymentStatus = "failed"
              /\ req[s].snap.orders[o].status = "cancelled"
              /\ orders[o] = req[s].snap.orders[o]

\* C16: a send-message request of a participant with a valid message ends
\* successfully and leaves its message in the store, whether or not the
\* socket server handle has been set (createNotification pushes through
\* emitToUser, which does nothing without the handle).
C16_PushNeverFails ==
    \A s \in Slots :
        (/\ Done(s, "send")
         /\ req[s].o \in DOMAIN req[s].snap.conversations
         /\ req[s].actor \in Range(req[s].snap.conversations[req[s].o].participants)
         /\ req[s].arg # "")
        => /\ req[s].resp = "Created"
           /\ Len(messages) = Len(req[s].snap.messages) + 1

\* C20: every stored conversation has exactly two participants; a save of a
\* new conversation with another number of participants fails and writes
\* nothing; and no step changes the participants of a stored conversation.
C20_TwoParticipants ==
    /\ [](\A c \in DOMAIN conversations : Len(conversations[c].participants) = 2)
    /\ [](\A s \in Slots :
            (Done(s, "newConversation") /\ Len(req[s].arg) # 2)
            => (req[s].resp = "ServerError" /\ conversations = req[s].snap.conversations))
    /\ [][\A c \in DOMAIN conversations :
             conversations'[c].participants = conversations[c].participants]_vars

C20_Witness ==
    \E s \in Slots :
        /\ Done(s, "newConversation")
        /\ Len(req[s].arg) = 3
        /\ req[s].resp = "ServerError"
        /\ \E c \in DOMAIN conversations :
              conversations[c].lastMessage # 0 /\ conversations[c].unreadCount["seller"] = 0
                                              /\ \E m \in DOMAIN messages : messages[m].isRead

\* C17: a finished mark-read request, through markNotificationAsRead or
\* through the socket event, of a user who is not the recipient of the
\* notification it names has left every notification as it was and has
\* raised no error.
C17_MarkReadOnlyByRecipient ==
    \A s \in Slots :
        (/\ req[s].pc = "done"
         /\ req[s].op \in {"markRead", "socketMarkRead"}
         /\ req[s].actor # req[s].arg.recipient)
        => (notifs = req[s].snap.notifs /\ req[s].resp = "OK")

\* C18: in every reachable state at most one review exists for an order and
\* a reviewer, also when the reviewer's two create-review requests run at the
\* same time; of two such requests at most one ends successfully.
C18_OneReviewPerOrderAndReviewer ==
    /\ \A o \in DOMAIN orders, u \in Users : lengthOf(existingReview(o, u)) <= 1
    /\ \A s, t \in Slots :
          (/\ s # t
           /\ Done(s, "review") /\ Done(t, "review")
           /\ req[s].o = req[t].o /\ req[s].actor = req[t].actor)
          => ~(req[s].resp = "OK" /\ req[t].resp = "OK")

C18_Witness ==
    \E s, t \in Slots :
        /\ s # t
        /\ Done(s, "review") /\ Done(t, "review")
        /\ req[s].o = req[t].o /\ req[s].actor = req[t].actor
        /\ existingReview(req[s].o, req[s].actor) \cap BagToSet(req[s].snap.reviews) = {}
        /\ existingReview(req[t].o, req[t].actor) \cap BagToSet(req[t].snap.reviews) = {}
        /\ req[s].resp = "OK"
        /\ req[t].resp = "ServerError"
        /\ req[t].arg = 5
        /\ lengthOf(existingReview(req[s].o, req[s].actor)) = 1

\* the rating fields of target t are what the specification gives for the
\* stored reviews of t
RatingAsSpecified(t) ==
    LET n == lengthOf(reviewsOf(t))
        sum == totalRating(reviewsOf(t))
    IN /\ ratings[t].totalReviews = n
       /\ n = 0 => ratings[t].rating = Quotient(0, 1)
       /\ n > 0 => ratings[t].rating.num * n = sum * ratings[t].rating.den
       /\ (n = 4 /\ sum = 16) => ratings[t].rating = Quotient(4, 1)

\* the targets whose updateRating a finished request has run
Updated(s) ==
    IF req[s].op = "updateRating" THEN {req[s].arg}
    ELSE IF req[s].op = "review" /\ req[s].resp = "OK"
    THEN {TheGig, IF Pre(s).buyer = req[s].actor THEN Pre(s).seller ELSE Pre(s).buyer}
    ELSE {}

PreConv(s) == req[s].snap.conversations[req[s].o]
NamedConv(s) == req[s].o \in DOMAIN req[s].snap.conversations
ByParticipant(s) == NamedConv(s) /\ req[s].actor \in Range(PreConv(s).participants)

\* C21: a send by a user who is not a participant of the conversation fails
\* with Forbidden and persists nothing; a send of a valid message by a
\* participant has persisted one message whose receiver is the other
\* participant, has set the conversation's lastMessage to that message, has
\* increased the receiver's unread counter by exactly 1 and has left the
\* sender's unread counter unchanged.
C21_Send ==
    \A s \in Slots :
        Done(s, "send")
        => IF ~ByParticipant(s)
           THEN /\ req[s].resp = "Forbidden"
                /\ messages = req[s].snap.messages
                /\ conversations = req[s].snap.conversations
           ELSE req[s].arg # ""
                => LET c == req[s].o
                       n == Len(req[s].snap.messages)
                       sender == req[s].actor
                   IN /\ Len(messages) = n + 1
                      /\ SubSeq(messages, 1, n) = req[s].snap.messages
                      /\ messages[n + 1].conversation = c
                      /\ messages[n + 1].sender = sender
                      /\ messages[n + 1].content = req[s].arg
                      /\ messages[n + 1].receiver # sender
                      /\ messages[n + 1].receiver \in Range(PreConv(s).participants)
                      /\ conversations[c].lastMessage = n + 1
                      /\ conversations[c].unreadCount[messages[n + 1].receiver]
                            = PreConv(s).unreadCount[messages[n + 1].receiver] + 1
                      /\ conversations[c].unreadCount[sender] = PreConv(s).unreadCount[sender]

C21_Witness ==
    \E s \in Slots :
        /\ Done(s, "send")
        /\ ByParticipant(s)
        /\ req[s].resp = "Created"
        /\ req[s].actor = "seller"
        /\ PreConv(s).unreadCount["seller"] = 1
        /\ conversations[req[s].o].unreadCount["seller"] = 1
        /\ conversations[req[s].o].unreadCount["buyer"] = 1
        /\ conversations[req[s].o].lastMessage = 2
        /\ messages[2].receiver = "buyer"

\* C22: create-custom-offer-payment with a price of at least 5.00 has
\* persisted one new order with no gig reference and package tier custom, in
\* status pending with paymentStatus pending and the fees computed from the
\* price; with a lower price it fails and persists nothing.
C22_CustomOfferPersists ==
    \A s \in Slots :
        Done(s, "customOffer")
        => IF req[s].arg >= 500
           THEN /\ req[s].resp = "OK"
                /\ Len(orders) = Len(req[s].snap.orders) + 1
                /\ LET d == Last(orders) IN
                   /\ d.gig = NoGig
                   /\ d.package = "custom"
                   /\ d.status = "pending"
                   /\ d.paymentStatus = "pending"
                   /\ d.packageDetails.price = req[s].arg
                   /\ FeesAsSpecified(d)
           ELSE req[s].resp # "OK" /\ orders = req[s].snap.orders

\* C23: the seller of an order is credited at most once for it: with one
\* order in the store and nothing credited before, the seller's
\* totalEarnings never exceeds the order's netAmount, and the seller's
\* completedOrders and the gig's totalOrders never exceed 1, whatever
\* requests run and however they interleave.
C23_CreditedAtMostOnce ==
    \A o \in DOMAIN orders :
        /\ users[orders[o].seller].totalEarnings <= orders[o].netAmount
        /\ users[orders[o].seller].completedOrders <= 1
        /\ gig.totalOrders <= 1

\* request s is a finished, successful requestRevision that found the order
\* delivered with exactly one revision remaining
LastRevisionTaken(s) ==
    /\ Done(s, "revision")
    /\ req[s].resp = "OK"
    /\ Pre(s).status = "delivered"
    /\ Len(Pre(s).revisions) + 1 = Pre(s).packageDetails.revisions

\* C24: two requestRevision calls of the buyer on a delivered order with
\* exactly one revision remaining can both pass the revision-count check
\* before either saves; whenever both have done so and finished, the order
\* holds both revision records, more than packageDetails.revisions.
C24_RevisionRace ==
    \A s, t \in Slots :
        (s # t /\ req[s].o = req[t].o /\ LastRevisionTaken(s) /\ LastRevisionTaken(t))
        => /\ Len(orders[req[s].o].revisions) = Len(Pre(s).revisions) + 2
           /\ Len(orders[req[s].o].revisions) > orders[req[s].o].packageDetails.revisions

C24_Witness ==
    /\ LastRevisionTaken(1)
    /\ LastRevisionTaken(2)
    /\ orders[1].packageDetails.revisions = 1
    /\ Len(orders[1].revisions) = 2
    /\ orders[1].status = "revision_requested"

\* the messages of conversation c addressed to user u that are not read
unreadFor(c, u) ==
    {m \in DOMAIN messages : /\ messages[m].conversation = c
                             /\ messages[m].receiver = u
                             /\ ~messages[m].isRead}

\* C25: whenever no request is in flight, each participant's unread counter
\* of a conversation is the number of the conversation's unread messages
\* addressed to that participant, after any interleaving of send, fetching the
\* conversation's messages and mark-message-read requests.
C25_UnreadCountersMatch ==
    Quiet => \A c \in DOMAIN conversations :
                \A u \in Range(conversations[c].participants) :
                    conversations[c].unreadCount[u] = Cardinality(unreadFor(c, u))

\* C26: once no create-review request is in flight, the rating and
\* totalReviews of the gig and of every user are the mean and the number of
\* the reviews stored for that target, also when two reviews of the same gig
\* were created at the same time.
C26_RatingsConsistent ==
    Quiet => \A t \in Targets : RatingAsSpecified(t)

\* C27: in every reachable state an order whose status is in_progress,
\* delivered, revision_requested or completed has paymentStatus paid.
C27_PaymentGatesProgress ==
    \A o \in DOMAIN orders :
        orders[o].status \in {"in_progress", "delivered", "revision_requested", "completed"}
        => orders[o].paymentStatus = "paid"

\* the stored conversations of the pair {a, b}
OfPair(a, b) == {c \in DOMAIN conversations : Range(conversations[c].participants) = {a, b}}

\* C28: after any interleaving of get-or-create requests at most one
\* conversation exists for each pair of distinct users; a finished request
\* for a pair that had a conversation has answered with a conversation that
\* existed before; and a finished request whose participantId is the
\* requester has been refused and has no conversation of its own.
C28_OneConversationPerPair ==
    /\ \A a, b \in Users : a # b => Cardinality(OfPair(a, b)) <= 1
    /\ \A s \in Slots :
          Done(s, "conversation")
          => /\ req[s].actor = req[s].arg
                => (req[s].resp = "BadRequest" /\ req[s].o \notin DOMAIN conversations)
             /\ (\E c \in DOMAIN req[s].snap.conversations :
                    Range(req[s].snap.conversations[c].participants) = {req[s].actor, req[s].arg})
                => (req[s].resp = "OK" /\ req[s].o \in DOMAIN req[s].snap.conversations)

\* C29: once every presence update sent on a connect or a disconnect has
\* been applied, a user's isOnline flag is true exactly when the user has a
\* socket connected.
C29_PresenceTracksConnections ==
    updates = EmptyBag => \A u \in Users : isOnline[u] <=> sockets[u] > 0

\* C30: a successful review written by the seller of an order about its
\* buyer has left the gig's rating and totalReviews as they were and has
\* changed no user's rating fields but the buyer's; a successful review
\* written by the buyer has added one review to the gig's and to the seller's
\* totalReviews and has changed no other user's rating fields.
C30_GigRatingOnlyFromBuyers ==
    \A s \in Slots :
        (Done(s, "review") /\ req[s].resp = "OK")
        => IF req[s].actor = Pre(s).seller
           THEN /\ ratings[TheGig] = req[s].snap.ratings[TheGig]
                /\ \A u \in Users \ {Pre(s).buyer} : ratings[u] = req[s].snap.ratings[u]
                /\ ratings[Pre(s).buyer].totalReviews
                      = req[s].snap.ratings[Pre(s).buyer].totalReviews + 1
           ELSE /\ ratings[TheGig].totalReviews = req[s].snap.ratings[TheGig].totalReviews + 1
                /\ ratings[Pre(s).seller].totalReviews
                      = req[s].snap.ratings[Pre(s).seller].totalReviews + 1
                /\ \A u \in Users \ {Pre(s).seller} : ratings[u] = req[s].snap.ratings[u]

====
